---- MODULE Spec2Model ----
(***************************************************************************)
(* SimpleCovidModel (src/model.py): a four-compartment epidemic model      *)
(* (S, I, R, D) with logistic transmission and lockdown curves, simulated  *)
(* with odeint and calibrated with lmfit.                                  *)
(*                                                                         *)
(* Number representation.  Parameter values, lockdown(t) and the logistic  *)
(* factor of beta(t) are fixed-point numbers in tenths: the integer 2 is   *)
(* 0.2, and One = 10 is the literal 1 of the source.  Compartment sizes    *)
(* and N are integers.  deriv returns the exact numerators of the four     *)
(* derivatives over the common denominator Den(N) = One^3 * N, so sums and *)
(* comparisons of derivatives are exact.  Time points are exact rationals  *)
(* <<numerator, denominator>>.                                             *)
(***************************************************************************)
EXTENDS Integers, Sequences, FiniteSets

VARIABLES
    N,          \* self.N
    days,       \* self.days
    y0,         \* self.y0 = <<S, I, R, D>>
    t,          \* self.t, the time grid, a sequence of rationals
    fit_data,   \* self.fit_data
    params,     \* self.params : parameter name -> entry
    calls,      \* number of method calls made so far
    lastOp,     \* the method called last
    outcome,    \* "returned" or "raised"
    ret,        \* the trajectory the last predict returned, else << >>
    result,     \* result.params of the last solver call that returned
    converged,  \* result.success of the last solver call that returned
    dcall,      \* arguments of the last direct evaluation of deriv
    dret        \* the value that evaluation returned, else << >>

vars == <<N, days, y0, t, fit_data, params, calls, lastOp, outcome, ret,
          result, converged, dcall, dret>>

model == <<N, days, y0, t, fit_data>>

----------------------------------------------------------------------------
(* Bounds of the model *)

MaxDays == 4
MaxCalls == 3
SubSteps == 2

(* The literal 1 of the source in tenths *)
One == 10

(* lmfit's default bounds (-inf, inf) of a Parameter *)
Inf == 1000 * One

Names == {"beta_a", "beta_b", "beta_k", "slipthrough",
          "lockdown_a", "lockdown_b", "gamma", "rho"}

LockdownNames == {"lockdown_a", "lockdown_b"}

----------------------------------------------------------------------------
(* numpy.linspace(start, stop, num), endpoint included: num points, the    *)
(* i-th being start + (i-1) * (stop - start) / (num - 1); one point, start,*)
(* when num = 1.  Points are rationals <<numerator, denominator>>.         *)

linspace(start, stop, num) ==
    [i \in 1..num |->
        IF num = 1 THEN <<start, 1>>
        ELSE <<start * (num - 1) + (i - 1) * (stop - start), num - 1>>]

(* a < b, a = b on rationals with positive denominators *)
RatLess(a, b) == a[1] * b[2] < b[1] * a[2]
RatEq(a, b) == a[1] * b[2] = b[1] * a[2]
RatSub(a, b) == <<a[1] * b[2] - b[1] * a[2], a[2] * b[2]>>

----------------------------------------------------------------------------
(* 1 / (1 + np.exp(x)) for x = xn / xd (xd > 0), rounded to the nearest    *)
(* tenth.  Cut[i] is, in thousandths, the x at which the value crosses     *)
(* 0.95, 0.85, ..., 0.05: ln(19), ln(17/3), ln(3), ln(13/7), ln(11/9).     *)
(* The value is 1 below the first cut and 0 from the last cut on, as the   *)
(* float expression is exactly 1.0 and 0.0 for large |x|.                  *)

Cut == <<-2944, -1735, -1099, -619, -201, 201, 619, 1099, 1735, 2944>>

expit(xn, xd) ==
    One - Cardinality({i \in 1..Len(Cut) : Cut[i] * xd <= xn * 1000})

(* beta(t) = beta_k / (1 + exp(beta_a + beta_b * t)), in hundredths:       *)
(* beta_k (tenths) times the logistic factor (tenths).  t = tm[1] / tm[2]. *)
beta(beta_a, beta_b, beta_k, tm) ==
    beta_k * expit(beta_a * tm[2] + beta_b * tm[1], One * tm[2])

(* lockdown(t) = 1 / (1 + exp(a + b * t)), in tenths *)
lockdown(a, b, tm) ==
    expit(a * tm[2] + b * tm[1], One * tm[2])

(* Common denominator of the four numerators deriv returns *)
Den(n) == One * One * One * n

deriv_negD(n, y, tm, a) ==
    LET S == y[1]
        I == y[2]
        b == beta(a.beta_a, a.beta_b, a.beta_k, tm)
        L == lockdown(a.lockdown_a, a.lockdown_b, tm)
    IN  << -(b * (L - a.slipthrough) * S * I),
           b * (One + a.slipthrough - L) * S * I - a.gamma * I * One * One * n,
           (One - a.rho) * a.gamma * I * One * n,
           -(a.rho * a.gamma * I * One * n) >>

(* deriv(y, t, beta_a, ..., rho): numerators over Den(n) of                *)
(* dSdt, dIdt, dRdt, dDdt.  a is the record of the eight arguments.        *)
deriv(n, y, tm, a) ==
    LET S == y[1]
        I == y[2]
        b == beta(a.beta_a, a.beta_b, a.beta_k, tm)
        L == lockdown(a.lockdown_a, a.lockdown_b, tm)
        dSdt == -(b * (L - a.slipthrough) * S * I)
        dIdt == b * (One + a.slipthrough - L) * S * I
                    - a.gamma * I * One * One * n
        dRdt == (One - a.rho) * a.gamma * I * One * n
        dDdt == a.rho * a.gamma * I * One * n
    IN  <<dSdt, dIdt, dRdt, dDdt>>

----------------------------------------------------------------------------
(* scipy.integrate.odeint(self.deriv, y0, t, args): the state at every     *)
(* point of the grid, starting from y0.  The integrator is stepped here    *)
(* with forward Euler, SubSteps equal steps between consecutive grid       *)
(* points, each increment rounded down to an integer.                      *)

(* One Euler step of length h from state y at time tm *)
EulerStep(n, y, tm, h, a) ==
    LET d == deriv(n, y, tm, a)
    IN  [c \in 1..4 |-> y[c] + ((d[c] * h[1]) \div (Den(n) * h[2]))]

(* The state after j of the SubSteps steps that lead from grid point p to  *)
(* grid point q, starting from y at p                                      *)
RECURSIVE Advance(_, _, _, _, _, _)
Advance(n, y, p, q, a, j) ==
    IF j = 0 THEN y
    ELSE LET h == <<q[1] * p[2] - p[1] * q[2], p[2] * q[2] * SubSteps>>
             tm == <<p[1] * q[2] * SubSteps + (j - 1) * h[1], h[2]>>
         IN  EulerStep(n, Advance(n, y, p, q, a, j - 1), tm, h, a)

(* Rows 1..i of the matrix odeint returns: one state per grid point *)
RECURSIVE odeint(_, _, _, _, _)
odeint(n, y, grid, a, i) ==
    IF i = 1 THEN <<y>>
    ELSE LET prev == odeint(n, y, grid, a, i - 1)
         IN  Append(prev, Advance(n, prev[i - 1], grid[i - 1], grid[i], a, SubSteps))

(* ret.T: the four compartment sequences S, I, R, D *)
Transpose(m) == [c \in 1..4 |-> [i \in 1..Len(m) |-> m[i][c]]]

----------------------------------------------------------------------------
(* Entries of self.params: a plain float of the dict given at              *)
(* construction, or an lmfit Parameter with a value and bounds             *)

Float(v) == [kind |-> "float", value |-> v, min |-> -Inf, max |-> Inf]
Parameter(v, lo, hi) == [kind |-> "Parameter", value |-> v, min |-> lo, max |-> hi]

(* Parameter.set(value=v): the value is clipped into the bounds *)
Clip(v, lo, hi) == IF v < lo THEN lo ELSE IF v > hi THEN hi ELSE v

(* The eight numbers a parameter set passes to deriv *)
Args(p) == [k \in Names |-> p[k].value]

ParamSet(ba, bb, bk, sl, la, lb, g, r) ==
    [k \in Names |->
        CASE k = "beta_a" -> ba
          [] k = "beta_b" -> bb
          [] k = "beta_k" -> bk
          [] k = "slipthrough" -> sl
          [] k = "lockdown_a" -> la
          [] k = "lockdown_b" -> lb
          [] k = "gamma" -> g
          [] k = "rho" -> r]

(* Parameter vectors the least-squares solver may return from a full fit,  *)
(* in tenths: physical ones, and ones an unbounded search can produce      *)
(* (lockdown_a, lockdown_b outside [0, 1], gamma < 0, rho > 1)             *)
CandidateSets ==
    { ParamSet(0, 0, 4, 0, 0, 0, 5, 5),
      ParamSet(0, 0, 8, 5, -30, 0, 10, 2),
      ParamSet(-10, 10, 10, 2, 30, 0, 2, 10),
      ParamSet(5, -5, 6, 12, 15, -3, -1, 12),
      ParamSet(0, 10, 10, 0, 3, 10, 10, 0) }

(* Initial guesses a caller constructs the model with *)
InitialGuesses ==
    { ParamSet(0, 0, 4, 0, 0, 0, 5, 5),
      ParamSet(0, 10, 10, 0, 15, -3, 10, 0) }

(* Values the solver may return for lockdown_a and lockdown_b *)
LockdownValues == {-3, 2, 10, 15}

(* params.add(name, min=0, max=1, value=0.2) *)
InitGuess == 2
BoundMin == 0
BoundMax == 10

----------------------------------------------------------------------------
(* Construction: __init__ stores its arguments and builds the time grid *)

ValidStates(n) == { <<n - 1, 1, 0, 0>>, <<n - 20, 10, 6, 4>> }

NoCall == [y |-> <<0, 0, 0, 0>>, t |-> <<0, 1>>, args |-> ParamSet(0, 0, 0, 0, 0, 0, 0, 0)]

Init ==
    /\ N = 100
    /\ days \in 1..MaxDays
    /\ y0 \in ValidStates(N)
    /\ t = linspace(0, days, days)
    /\ fit_data \in { [i \in 1..days |-> 0], [i \in 1..days |-> 2 * (i - 1)] }
    /\ \E g \in InitialGuesses : params = [k \in Names |-> Float(g[k])]
    /\ calls = 0
    /\ lastOp = "__init__"
    /\ outcome = "returned"
    /\ ret = << >>
    /\ result = << >>
    /\ converged = FALSE
    /\ dcall = NoCall
    /\ dret = << >>

(* Bookkeeping of one method call *)
Called(op, how) ==
    /\ calls < MaxCalls
    /\ calls' = calls + 1
    /\ lastOp' = op
    /\ outcome' = how
    /\ UNCHANGED <<dcall, dret>>

----------------------------------------------------------------------------
(* predict: integrate from self.y0 over self.t with the stored parameters  *)
(* and return the transposed trajectory                                    *)

predictReturns ==
    /\ Called("predict", "returned")
    /\ ret' = Transpose(odeint(N, y0, t, Args(params), Len(t)))
    /\ UNCHANGED <<model, params, result, converged>>

(* odeint raises: the exception leaves predict *)
predictRaises ==
    /\ Called("predict", "raised")
    /\ ret' = << >>
    /\ UNCHANGED <<model, params, result, converged>>

predict_continues ==
    \/ /\ Called("predict", "returned")
       /\ ret' = Transpose(odeint(N, y0, t, Args(params), Len(t)))
       /\ y0' = [c \in 1..4 |-> ret'[c][Len(t)]]
       /\ UNCHANGED <<N, days, t, fit_data, params, result, converged>>
    \/ predictRaises

predict == predictReturns \/ predictRaises

----------------------------------------------------------------------------
(* fit: a least-squares fit of all eight parameters to fit_data *)

(* The Parameters mod.fit works on: make_params() gives every name an      *)
(* unbounded Parameter; a float keyword sets its value, a Parameter        *)
(* keyword replaces it by a copy (with that Parameter's bounds)            *)
fitParams(p) ==
    [k \in Names |->
        IF p[k].kind = "float" THEN Parameter(p[k].value, -Inf, Inf) ELSE p[k]]

(* result.params of a call of mod.fit that returns: a best-fit value       *)
(* within the bounds of each Parameter                                     *)
fitResults(p) ==
    LET q == fitParams(p)
    IN  { [k \in Names |-> Parameter(c[k], q[k].min, q[k].max)] :
            c \in { d \in CandidateSets :
                      \A k \in Names : q[k].min <= d[k] /\ d[k] <= q[k].max } }

fitStore_ifConverged(p, res, success) == IF success THEN res ELSE p

(* self.params = result.params *)
fitStore(p, res, success) == res

fitRaised_partial(p, c) ==
    [k \in Names |-> IF k = "beta_a" THEN Float(c[k]) ELSE p[k]]

(* self.params when mod.fit raises while evaluating candidate c: the       *)
(* assignment after the call is not reached                                *)
fitRaised(p, c) == p

fitReturns ==
    /\ Called("fit", "returned")
    /\ \E res \in fitResults(params), success \in BOOLEAN :
          /\ result' = res
          /\ converged' = success
          /\ params' = fitStore(params, res, success)
    /\ UNCHANGED <<model, ret>>

fitRaises ==
    /\ Called("fit", "raised")
    /\ \E c \in CandidateSets : params' = fitRaised(params, c)
    /\ UNCHANGED <<model, ret, result, converged>>

fit == fitReturns \/ fitRaises

----------------------------------------------------------------------------
(* optimize: a bounded least-squares fit of lockdown_a and lockdown_b *)

(* params = lmfit.Parameters() with the two bounded entries *)
optimizeLocal ==
    [k \in LockdownNames |-> Parameter(InitGuess, BoundMin, BoundMax)]

(* The Parameters mod.fit works on: a copy of the local ones, where a      *)
(* float keyword sets the value (clipped into [0, 1]) and a Parameter      *)
(* keyword replaces the entry by a copy, bounds included                   *)
optimizeParams(p) ==
    [k \in LockdownNames |->
        IF p[k].kind = "float"
        THEN Parameter(Clip(p[k].value, BoundMin, BoundMax), BoundMin, BoundMax)
        ELSE p[k]]

(* result.params of a call of mod.fit that returns *)
optimizeResults(p) ==
    LET q == optimizeParams(p)
    IN  { [k \in LockdownNames |-> Parameter(v[k], q[k].min, q[k].max)] :
            v \in { w \in [LockdownNames -> LockdownValues] :
                      \A k \in LockdownNames : q[k].min <= w[k] /\ w[k] <= q[k].max } }

optimizeStore_whole(p, local, res) == res

optimizeStore_result(p, local, res) ==
    [k \in Names |-> IF k \in LockdownNames THEN res[k] ELSE p[k]]

(* self.params["lockdown_a"] = params["lockdown_a"], and the same for      *)
(* lockdown_b: params is the local Parameters object, which mod.fit copied *)
(* and did not change                                                      *)
optimizeStore(p, local, res) ==
    [k \in Names |-> IF k \in LockdownNames THEN local[k] ELSE p[k]]

optimizeReturns ==
    /\ Called("optimize", "returned")
    /\ \E res \in optimizeResults(params), success \in BOOLEAN :
          /\ result' = res
          /\ converged' = success
          /\ params' = optimizeStore(params, optimizeLocal, res)
    /\ UNCHANGED <<model, ret>>

optimizeRaises ==
    /\ Called("optimize", "raised")
    /\ UNCHANGED <<model, params, ret, result, converged>>

optimize == optimizeReturns \/ optimizeRaises

----------------------------------------------------------------------------
Next == predict \/ fit \/ optimize

Spec == Init /\ [][Next]_vars

----------------------------------------------------------------------------
(* deriv as a function of its arguments: the integrator calls it with      *)
(* states, times and parameters of its own choosing                        *)

DerivStates == { <<99, 1, 0, 0>>, <<60, 25, 10, 5>>, <<0, 40, 50, 10>> }

DerivTimes == { <<0, 1>>, <<3, 2>>, <<4, 1>> }

DerivArgs ==
    { ParamSet(ba, bb, bk, sl, la, lb, g, r) :
        ba \in {0, 30}, bb \in {0, -10}, bk \in {0, 4},
        sl \in {0, 5, 10}, la \in {-30, 0, 30}, lb \in {0, 10},
        g \in {0, 5}, r \in {0, 5, 10} }

InitDeriv ==
    /\ N = 100
    /\ days = 1
    /\ y0 = <<N - 1, 1, 0, 0>>
    /\ t = linspace(0, days, days)
    /\ fit_data = [i \in 1..days |-> 0]
    /\ params = [k \in Names |-> Float(0)]
    /\ calls = 0
    /\ lastOp = "__init__"
    /\ outcome = "returned"
    /\ ret = << >>
    /\ result = << >>
    /\ converged = FALSE
    /\ dcall \in [y : DerivStates, t : DerivTimes, args : DerivArgs]
    /\ dret = << >>

callDeriv ==
    /\ dret = << >>
    /\ dret' = deriv(N, dcall.y, dcall.t, dcall.args)
    /\ UNCHANGED <<model, params, calls, lastOp, outcome, ret, result,
                   converged, dcall>>

NextDeriv == callDeriv

SpecDeriv == InitDeriv /\ [][NextDeriv]_vars

----------------------------------------------------------------------------
(* The infection flow of a call of deriv, taken apart *)

DerivBeta == beta(dcall.args.beta_a, dcall.args.beta_b, dcall.args.beta_k, dcall.t)
DerivLockdown == lockdown(dcall.args.lockdown_a, dcall.args.lockdown_b, dcall.t)

(* beta(t) * S * I / N, over One^2 * N *)
DerivContact == DerivBeta * dcall.y[1] * dcall.y[2]

(* The flow leaving S and the flow entering I, numerators over Den(N) *)
FlowOutOfS == -dret[1]
FlowIntoI == dret[2] + dcall.args.gamma * dcall.y[2] * One * One * N

(* C1: the four derivatives deriv returns sum to zero, for every state,    *)
(* every value of the parameters and every t (so S + I + R + D stays N).   *)
C1_Conservation ==
    dret # << >> => dret[1] + dret[2] + dret[3] + dret[4] = 0

(* C8: the factor that multiplies beta(t) * S * I / N is 1 when            *)
(* lockdown(t) = 0, slipthrough when lockdown(t) = 1 and linear in         *)
(* lockdown(t) in between, and the flow leaving S equals the flow          *)
(* entering I.                                                             *)
C8_Interpolation ==
    dret # << >> =>
        /\ FlowOutOfS = FlowIntoI
        /\ FlowIntoI * One =
              DerivContact * (One * One - DerivLockdown * (One - dcall.args.slipthrough))

----------------------------------------------------------------------------
(* Properties of the model object under predict, fit and optimize *)

Returned(op) == lastOp = op /\ outcome = "returned"

(* C2: after optimize completes, the stored lockdown_a and lockdown_b      *)
(* equal the best-fit values the solver returned for that call.            *)
C2_OptimizeStoresBestFit ==
    Returned("optimize") =>
        \A k \in LockdownNames : params[k].value = result[k].value

(* C3: optimize changes only the lockdown_a and lockdown_b entries: the    *)
(* other six entries are the same after the call as before it, and the     *)
(* parameter names are still exactly the eight names.                      *)
C3_OptimizeFrame ==
    [][(lastOp' = "optimize" /\ calls' = calls + 1) =>
          /\ DOMAIN params' = Names
          /\ \A k \in Names \ LockdownNames : params'[k] = params[k]]_vars

C3_Witness ==
    /\ Returned("optimize")
    /\ params["lockdown_a"] = Parameter(InitGuess, BoundMin, BoundMax)
    /\ params["rho"].kind = "Parameter"
    /\ params["rho"].value > One

(* C4: after a call of optimize has returned, whatever the stored values   *)
(* were before it, the stored lockdown_a and lockdown_b are within [0, 1]. *)
C4_OptimizeBounded ==
    Returned("optimize") =>
        \A k \in LockdownNames : 0 <= params[k].value /\ params[k].value <= One

(* optimize ran on entries an unbounded fit had left: the solver worked    *)
(* without bounds and returned a lockdown_a above 1                        *)
C4_Witness ==
    /\ Returned("optimize")
    /\ result["lockdown_a"].max = Inf
    /\ result["lockdown_a"].value > One
    /\ params["lockdown_a"].value <= One

(* C5: whenever the solver returns from fit, converged or not, the stored  *)
(* parameter set is the solver's returned set, all eight entries.          *)
C5_FitStoresResult ==
    Returned("fit") => DOMAIN params = Names /\ params = result

C5_Witness ==
    /\ Returned("fit")
    /\ ~converged
    /\ params = result
    /\ calls >= 2

(* C6: the time grid has exactly `days` points, starts at 0, is strictly   *)
(* increasing with equal spacing, and every point lies in [0, days).       *)
C6_TimeGrid ==
    /\ Len(t) = days
    /\ RatEq(t[1], <<0, 1>>)
    /\ \A i \in 1..(days - 1) : RatLess(t[i], t[i + 1])
    /\ \A i, j \in 1..(days - 1) :
          RatEq(RatSub(t[i + 1], t[i]), RatSub(t[j + 1], t[j]))
    /\ \A i \in 1..days : ~RatLess(t[i], <<0, 1>>) /\ RatLess(t[i], <<days, 1>>)

(* C7: for gamma >= 0 and rho >= 0, D never decreases from one time point  *)
(* of a simulated trajectory to the next, and dD/dt is non-negative at     *)
(* every state of the trajectory.                                          *)
C7_DeadMonotone ==
    (/\ Returned("predict")
     /\ params["gamma"].value >= 0
     /\ params["rho"].value >= 0) =>
        /\ \A i \in 1..(days - 1) : ret[4][i] <= ret[4][i + 1]
        /\ \A i \in 1..days :
              deriv(N, <<ret[1][i], ret[2][i], ret[3][i], ret[4][i]>>,
                    t[i], Args(params))[4] >= 0

C7_Witness ==
    /\ Returned("predict")
    /\ params["gamma"].value > 0
    /\ params["rho"].value > 0
    /\ days >= 3
    /\ \A i \in 1..(days - 1) : ret[4][i] < ret[4][i + 1]

(* C9: N, y0, the time grid and fit_data keep their construction-time      *)
(* values across predict, fit and optimize; predict leaves the stored      *)
(* parameters unchanged, so a predict that follows a predict returns the   *)
(* same trajectory.                                                        *)
C9_Frame ==
    [][/\ model' = model
       /\ (lastOp' = "predict" /\ calls' = calls + 1) => params' = params
       /\ (Returned("predict") /\ lastOp' = "predict" /\ outcome' = "returned"
             /\ calls' = calls + 1) => ret' = ret]_vars

C9_Witness ==
    /\ Returned("predict")
    /\ calls = 3
    /\ params["beta_a"].kind = "Parameter"
    /\ ret[1][days] # y0[1]

(* C10: if the solver or the integrator raises during fit or optimize,     *)
(* the stored parameter set is exactly what it was before the call.        *)
C10_FailureAtomic ==
    [][(outcome' = "raised" /\ calls' = calls + 1
          /\ lastOp' \in {"fit", "optimize"}) => params' = params]_vars

C10_Witness ==
    /\ lastOp = "fit"
    /\ outcome = "raised"
    /\ params["beta_a"].kind = "Parameter"

====
